---------------------------- MODULE Spec2Model ----------------------------
(***************************************************************************)
(* LetPotDeviceClient (src/letpot/deviceclient.py): the frame encoder, the *)
(* connection life cycle of subscribe, the inbound dispatch loop, the      *)
(* pending-status timer and the set_* command calls, as one state machine. *)
(* One step of the machine is one run of a coroutine between two awaits    *)
(* of the asyncio event loop.                                              *)
(***************************************************************************)
EXTENDS Integers, Sequences, FiniteSets, TLC

(* ------------------------------ constants ----------------------------- *)

\* LetPotDeviceClient.MTU
MTU == 128

\* the argument of asyncio.sleep in _clear_update_status
ClearDelay == 5

\* reconnect_interval = min(attempts * 15, 600)
ReconnectStep == 15

ReconnectCap == 600

\* _publish: maintype 1 (data), subtype 19 (custom)
PublishMaintype == 1

PublishSubtype == 19

\* the continuation flag of every packet but the last
ContinuationFlag == 16

\* err.rc in [4, 5, 134, 135]
AuthCodes == {4, 5, 134, 135}

(* ------------------------------- bounds ------------------------------- *)

\* longest message handed to _generate_message_packets by the encoder runs
MaxMessageLen == 245

\* highest value of _message_id an encoder run starts from
MaxStartId == 2

\* calls of subscribe made on one client object
MaxSubscribeCalls == 2

\* failed connection attempts in a row the session model follows
MaxAttempts == 1

\* failed connection attempts in a row the life-cycle model follows
MaxLifeAttempts == 41

\* set_* calls made on one client object
MaxCalls == 2

\* inbound payloads handed to the dispatch loop
MaxInbound == 1

\* set_* calls and inbound payloads of the pending-status runs
MaxPendingCalls == 4
MaxPendingInbound == 2

\* set_* calls of the runs with two methods in turn
MaxTurnCalls == 5

\* set_* calls of the runs over every method
MaxCommandCalls == 2

(* ------------------------------ the encoder --------------------------- *)

Min(a, b) == IF a < b THEN a ELSE b

RECURSIVE BitOr(_, _)
\* a | b on naturals
BitOr(a, b) ==
    IF a = 0 THEN b
    ELSE IF b = 0 THEN a
    ELSE 2 * BitOr(a \div 2, b \div 2) + (IF a % 2 = 1 \/ b % 2 = 1 THEN 1 ELSE 0)

\* (subtype << 2) | maintype
HeaderByte(maintype, subtype) == BitOr(subtype * 4, maintype)

\* max_packet_size = self.MTU - 6
MaxPacketSize == MTU - 6

\* a slip of the rounding: one packet too many on an exact multiple
NumPacketsFloorPlusOne(length) == length \div MaxPacketSize + 1

\* num_packets = (length + max_packet_size - 1) // max_packet_size
NumPackets(length) == (length + MaxPacketSize - 1) \div MaxPacketSize

\* start = n * max_packet_size (n counts from 0)
ChunkStart(n) == n * MaxPacketSize

\* end = min(start + max_packet_size, length)
ChunkEnd(n, length) == Min(ChunkStart(n) + MaxPacketSize, length)

\* payload = message[start:end]
Chunk(message, n) ==
    SubSeq(message, ChunkStart(n) + 1, ChunkEnd(n, Len(message)))

\* the packet of index n (from 0) of a message, as the list of integers the
\* code builds before rendering it; mid is self._message_id at that moment
Packet(maintype, subtype, message, n, mid) ==
    LET length == Len(message)
        payload == Chunk(message, n)
    IN  IF n < NumPackets(length) - 1
        THEN <<HeaderByte(maintype, subtype), ContinuationFlag, mid,
               Len(payload) + 4, length % 256, length \div 256>> \o payload
        ELSE <<HeaderByte(maintype, subtype), 0, mid, Len(payload)>> \o payload

HexChar(d) ==
    CASE d = 0 -> "0" [] d = 1 -> "1" [] d = 2 -> "2" [] d = 3 -> "3"
      [] d = 4 -> "4" [] d = 5 -> "5" [] d = 6 -> "6" [] d = 7 -> "7"
      [] d = 8 -> "8" [] d = 9 -> "9" [] d = 10 -> "a" [] d = 11 -> "b"
      [] d = 12 -> "c" [] d = 13 -> "d" [] d = 14 -> "e" [] d = 15 -> "f"

RECURSIVE HexDigits(_)
\* format(n, "x"): the hex digits of n, most significant first, no padding
HexDigits(n) ==
    IF n < 16 THEN <<HexChar(n)>>
    ELSE Append(HexDigits(n \div 16), HexChar(n % 16))

\* f"{byte:02x}": at least two digits, zero padded; wider when byte > 255
Hex02(byte) ==
    LET ds == HexDigits(byte)
    IN  IF Len(ds) < 2 THEN <<"0">> \o ds ELSE ds

RECURSIVE HexJoin(_)
\* "".join(f"{byte:02x}" for byte in packet), as a sequence of characters
\* (joined by halves: the recursion stays shallow on a 128-byte packet)
HexJoin(packet) ==
    IF packet = <<>> THEN <<>>
    ELSE IF Len(packet) = 1 THEN Hex02(packet[1])
    ELSE LET half == Len(packet) \div 2
         IN  HexJoin(SubSeq(packet, 1, half))
                \o HexJoin(SubSeq(packet, half + 1, Len(packet)))

\* the integer lists of all packets of one message, in generation order
RawPackets(maintype, subtype, message, mid) ==
    [n \in 1..NumPackets(Len(message)) |->
        Packet(maintype, subtype, message, n - 1, mid + (n - 1))]

\* self._message_id after the packets of one message were generated
NextMessageIdPerMessage(mid, length) == mid + 1

NextMessageId(mid, length) == mid + NumPackets(length)

\* _generate_message_packets: the rendered packets
GenerateMessagePackets(maintype, subtype, message, mid) ==
    LET raw == RawPackets(maintype, subtype, message, mid)
    IN  [n \in 1..Len(raw) |-> HexJoin(raw[n])]

(* ------------------- the converter and the statuses ------------------- *)

\* LetPotDeviceStatus | None: the absent status
NoStatus == [none |-> TRUE]

\* datetime.time | None: the absent time of set_light_schedule
NoTime == -1

\* two status reports of the device, differing in every field
ReportA ==
    [system_on |-> FALSE, light_mode |-> 0, light_brightness |-> 500,
     light_schedule_start |-> 8, light_schedule_end |-> 20,
     plant_days |-> 0, pump_mode |-> 0, system_sound |-> FALSE]

ReportB ==
    [system_on |-> TRUE, light_mode |-> 1, light_brightness |-> 1000,
     light_schedule_start |-> 6, light_schedule_end |-> 22,
     plant_days |-> 3, pump_mode |-> 1, system_sound |-> TRUE]

\* the converter the constructor found for the serial's prefix: none, or one
\* of two device families, whose update message fits one packet or not
NoConverter == [supported |-> FALSE, update_len |-> 0]

ShortConverter == [supported |-> TRUE, update_len |-> 9]

Converters ==
    {NoConverter, ShortConverter,
     [supported |-> TRUE, update_len |-> MaxPacketSize + 1]}

\* converter.get_light_brightness_levels()
ConverterLevels == {500, 1000}

\* converter.get_current_status_message()
GetCurrentStatusMessage == <<97, 1>>

\* converter.get_update_status_message(status): the bytes are the device
\* family's; the frame layer sees only their number
GetUpdateStatusMessage(conv, status) == [i \in 1..conv.update_len |-> (7 * i) % 256]

\* converter.convert_hex_to_status(message.payload): a status report decodes
\* to its status, any other payload to None
ConvertHexToStatus(payload) ==
    CASE payload = "reportA" -> ReportA
      [] payload = "reportB" -> ReportB
      [] OTHER -> NoStatus

InboundPayloads == {"reportA", "reportB", "other"}

\* the errors the transport raises: a plain MqttError (code FALSE) or an
\* MqttCodeError with its rc
PlainError == [code |-> FALSE, rc |-> 0]

NoError == [code |-> FALSE, rc |-> -1]

TransportErrors ==
    {PlainError, [code |-> TRUE, rc |-> 7], [code |-> TRUE, rc |-> 4],
     [code |-> TRUE, rc |-> 135]}

\* the errors of the session model
SessionErrors == {PlainError, [code |-> TRUE, rc |-> 135]}

\* isinstance(err, MqttCodeError) and err.rc in [4, 5, 134, 135]
IsAuthError(err) == err.code /\ err.rc \in AuthCodes

\* min(self._connection_attempts * 15, 600)
ReconnectIntervalUncapped(attempts) == attempts * ReconnectStep

ReconnectInterval(attempts) == Min(attempts * ReconnectStep, ReconnectCap)

(* ------------------------------- state -------------------------------- *)

VARIABLES
    _converter,    \* self._converter (NoConverter: None)
    _client,       \* self._client: 0 is None, n > 0 the n-th connection
    _connection_attempts,
    _message_id,   \* self._message_id
    _update_status,
    _update_clear, \* self._update_clear: 0 is None, else the timer task's id
    last_status,
    sub_pc,        \* where subscribe stands
    reconnect_interval, \* the interval of the last backoff sleep
    link,          \* the broker connection: "none", "up" or "down"
    link_err,      \* the error a broken connection raises
    hm_pc,         \* the _handle_messages task
    ip,            \* the task publishing the initial status request
    tg_error,      \* the error that made the TaskGroup abort
    calls,         \* the set_* call of each caller
    timers,        \* the live _clear_update_status tasks
    published,     \* every frame handed to client.publish, in order
    callbacks,     \* the statuses the callback was invoked with, in order
    hist,          \* counters and history the claims are stated with
    enc_pc,        \* "off": no encoder run; "ready": arguments drawn; "done"
    enc_in,        \* the arguments of the encoder run
    enc_raw,       \* the integer lists the run built (packet, lines 85-101)
    enc_out        \* what the run returned: the rendered packets

encVars == <<enc_pc, enc_in, enc_raw, enc_out>>

clientVars == <<_client, _connection_attempts, _message_id, _update_status,
                _update_clear, last_status>>

subVars == <<sub_pc, reconnect_interval, link, link_err, hm_pc, ip, tg_error>>

vars == <<_converter, clientVars, subVars, calls, timers, published, callbacks,
          hist, encVars>>

Callers == {1, 2}

\* a set_* call: the method and its arguments (flag: the bool argument,
\* num: the int or start argument, num2: the end argument)
Command(op, flag, num, num2) == [op |-> op, flag |-> flag, num |-> num, num2 |-> num2]

NoCommand == Command("none", FALSE, 0, 0)

\* every method, with a value the reports do not carry where there is one
AllCommands ==
    {Command("set_power", TRUE, 0, 0), Command("set_power", FALSE, 0, 0),
     Command("set_light_mode", FALSE, 1, 0), Command("set_light_mode", FALSE, 2, 0),
     Command("set_light_brightness", FALSE, 1000, 0),
     Command("set_light_brightness", FALSE, 750, 0),
     Command("set_light_schedule", FALSE, 7, 21),
     Command("set_light_schedule", FALSE, 7, NoTime),
     Command("set_light_schedule", FALSE, NoTime, 21),
     Command("set_light_schedule", FALSE, NoTime, NoTime),
     Command("set_plant_days", FALSE, 10, 0),
     Command("set_pump_mode", TRUE, 0, 0), Command("set_pump_mode", FALSE, 0, 0),
     Command("set_sound", TRUE, 0, 0), Command("set_sound", FALSE, 0, 0)}

\* the commands of the session model
SessionCommands ==
    {Command("set_power", TRUE, 0, 0), Command("set_light_brightness", FALSE, 750, 0)}

\* a caller that calls set_power(true) and set_light_mode(2) in turn
TurnCommands(made) ==
    IF made % 2 = 0 THEN {Command("set_power", TRUE, 0, 0)}
    ELSE {Command("set_light_mode", FALSE, 2, 0)}

\* the methods of the pending-status runs
PendingCommands == {Command("set_light_mode", FALSE, 2, 0)}

IdleCall ==
    [pc |-> "idle", id |-> 0, cmd |-> NoCommand, base |-> NoStatus,
     status |-> NoStatus, wait |-> 0, frames |-> <<>>, result |-> "none"]

IdleTask == [pc |-> "none", frames |-> <<>>]

\* the class attributes' defaults (lines 37-49), and nothing running
InitObject ==
    /\ _client = 0
    /\ _connection_attempts = 0
    /\ _update_status = NoStatus
    /\ _update_clear = 0
    /\ last_status = NoStatus
    /\ sub_pc = "idle"
    /\ reconnect_interval = 0
    /\ link = "none"
    /\ link_err = NoError
    /\ hm_pc = "none"
    /\ ip = IdleTask
    /\ tg_error = NoError
    /\ calls = [c \in Callers |-> IdleCall]
    /\ timers = {}
    /\ published = <<>>
    /\ callbacks = <<>>
    /\ hist = [sub_calls |-> 0, connections |-> 0, calls |-> 0, inbound |-> 0,
               failures |-> 0, generated |-> <<>>, pending_age |-> 0,
               pending_by |-> 0, reg_cmd |-> NoCommand, reg_age |-> 0]

\* the object after __init__, before any call
InitSession ==
    /\ _converter \in Converters
    /\ _message_id = 0
    /\ InitObject
    /\ enc_pc = "off"
    /\ enc_in = [maintype |-> 0, subtype |-> 0, message |-> <<>>]
    /\ enc_raw = <<>>
    /\ enc_out = <<>>

(* ------------------------------ publishing ---------------------------- *)

\* _publish, lines 125-127: the packets of one message as the session sees
\* them: sequence number and continuation flag of each, who generated it
\* (0: the initial status request, else the set_* call), the status it was
\* made from, and on which connection
SessionFrames(message, owner, status) ==
    LET raw == RawPackets(PublishMaintype, PublishSubtype, message, _message_id)
    IN  [n \in 1..Len(raw) |->
            [seq |-> raw[n][3], flag |-> raw[n][2], owner |-> owner,
             status |-> status, conn |-> _client]]

\* the sequence numbers of some frames
Seqs(frames) == [n \in 1..Len(frames) |-> frames[n].seq]

\* await self._client.publish(topic, payload=publish_message), line 130, as
\* the state stands: None has no publish, a live connection takes the frame,
\* a broken one raises
PublishOutcome ==
    IF _client = 0 THEN "attribute_error"
    ELSE IF link = "up" THEN "sent"
    ELSE "mqtt_error"

\* the frame as the transport got it: on the connection self._client names now
Sent(frame) == frame @@ [on |-> _client]

DoneTask == [pc |-> "done", frames |-> <<>>]

(* --------------------------- subscribe: life cycle -------------------- *)

EndedPcs == {"idle", "returned", "auth_failed", "raised_group", "cancelled"}

\* subscribe is called: lines 164-170, up to the await in Client.__aenter__
SubscribeCall ==
    /\ sub_pc \in EndedPcs
    /\ hist.sub_calls < MaxSubscribeCalls
    /\ sub_pc' = IF _converter.supported THEN "connecting" ELSE "returned"
    /\ hist' = [hist EXCEPT !.sub_calls = @ + 1]
    /\ UNCHANGED <<_converter, clientVars, reconnect_interval, link, link_err,
                   hm_pc, ip, tg_error, calls, timers, published, callbacks,
                   encVars>>

\* the connection is up: lines 187-191, up to the await in client.subscribe
ConnectOk ==
    /\ sub_pc = "connecting"
    /\ _client' = hist.connections + 1
    /\ _connection_attempts' = 0
    /\ _message_id' = 0
    /\ link' = "up"
    /\ sub_pc' = "subscribing"
    /\ hist' = [hist EXCEPT !.connections = @ + 1, !.failures = 0,
                            !.generated = <<>>]
    /\ UNCHANGED <<_converter, _update_status, _update_clear, last_status,
                   reconnect_interval, link_err, hm_pc, ip, tg_error, calls,
                   timers, published, callbacks, encVars>>

\* Client.__aenter__ raises err: the except clause, lines 197-214, up to the
\* backoff sleep or the raise of LetPotAuthenticationException
ConnectFail(err, limit) ==
    /\ sub_pc = "connecting"
    /\ ~IsAuthError(err) => _connection_attempts < limit
    /\ _client' = 0
    /\ IF IsAuthError(err)
       THEN /\ sub_pc' = "auth_failed"
            /\ UNCHANGED <<_connection_attempts, reconnect_interval, hist>>
       ELSE /\ _connection_attempts' = _connection_attempts + 1
            /\ reconnect_interval' = ReconnectInterval(_connection_attempts + 1)
            /\ sub_pc' = "sleeping"
            /\ hist' = [hist EXCEPT !.failures = @ + 1]
    /\ UNCHANGED <<_converter, _message_id, _update_status, _update_clear,
                   last_status, link, link_err, hm_pc, ip, tg_error, calls,
                   timers, published, callbacks, encVars>>

\* the backoff sleep is over: finally (line 216), then the loop's next round
BackoffDone ==
    /\ sub_pc = "sleeping"
    /\ _client' = 0
    /\ sub_pc' = IF _converter.supported THEN "connecting" ELSE "returned"
    /\ UNCHANGED <<_converter, _connection_attempts, _message_id, _update_status,
                   _update_clear, last_status, reconnect_interval, link, link_err,
                   hm_pc, ip, tg_error, calls, timers, published, callbacks,
                   hist, encVars>>

\* client.subscribe returned: the two tasks are created (lines 193-196) and
\* subscribe waits in TaskGroup.__aexit__
SubscribeTopicOk ==
    /\ sub_pc = "subscribing"
    /\ link = "up"
    /\ hm_pc' = "ready"
    /\ ip' = [pc |-> "ready", frames |-> <<>>]
    /\ sub_pc' = "running"
    /\ UNCHANGED <<_converter, clientVars, reconnect_interval, link, link_err,
                   tg_error, calls, timers, published, callbacks, hist, encVars>>

\* an exception leaves the body of the async with: TaskGroup.__aexit__ wraps
\* it (and the tasks' exceptions) in an ExceptionGroup, which is no MqttError:
\* the except clause of line 197 does not match, finally runs (line 216), and
\* the ExceptionGroup leaves subscribe
GroupEscapes ==
    /\ _client' = 0
    /\ link' = "none"
    /\ link_err' = NoError
    /\ tg_error' = NoError
    /\ hm_pc' = "none"
    /\ ip' = IdleTask
    /\ sub_pc' = "raised_group"

\* client.subscribe raises err (line 191): the broker refuses the
\* subscription, or the connection broke
SubscribeTopicFail(err) ==
    /\ sub_pc = "subscribing"
    /\ link = "down" => err = link_err
    /\ GroupEscapes
    /\ UNCHANGED <<_converter, _connection_attempts, _message_id, _update_status,
                   _update_clear, last_status, reconnect_interval, calls, timers,
                   published, callbacks, hist, encVars>>

\* the environment: the broker connection breaks, with the error the
\* transport will raise
LinkLost(err) ==
    /\ link = "up"
    /\ link' = "down"
    /\ link_err' = err
    /\ UNCHANGED <<_converter, clientVars, sub_pc, reconnect_interval, hm_pc, ip,
                   tg_error, calls, timers, published, callbacks, hist, encVars>>

\* a task of the group raised: the group aborted, the other task was
\* cancelled, and subscribe is woken in TaskGroup.__aexit__
TaskGroupUnwind ==
    /\ sub_pc = "running"
    /\ tg_error # NoError
    /\ GroupEscapes
    /\ UNCHANGED <<_converter, _connection_attempts, _message_id, _update_status,
                   _update_clear, last_status, reconnect_interval, calls, timers,
                   published, callbacks, hist, encVars>>

\* the caller cancels the task running subscribe: CancelledError at the
\* await it stands at, the group's tasks are cancelled, finally runs
CancelSubscribe ==
    /\ sub_pc \in {"connecting", "subscribing", "running", "sleeping"}
    /\ sub_pc' = "cancelled"
    /\ _client' = 0
    /\ link' = "none"
    /\ link_err' = NoError
    /\ tg_error' = NoError
    /\ hm_pc' = "none"
    /\ ip' = IdleTask
    /\ UNCHANGED <<_converter, _connection_attempts, _message_id, _update_status,
                   _update_clear, last_status, reconnect_interval, calls, timers,
                   published, callbacks, hist, encVars>>

(* ------------------------- the tasks of the group --------------------- *)

\* _handle_messages starts: line 112, then the first await on the iterator
HmStart ==
    /\ hm_pc = "ready"
    /\ hm_pc' = IF _converter.supported /\ _client # 0 THEN "waiting" ELSE "done"
    /\ UNCHANGED <<_converter, clientVars, sub_pc, reconnect_interval, link,
                   link_err, ip, tg_error, calls, timers, published, callbacks,
                   hist, encVars>>

HmMessageKeepsPending(payload, limit) ==
    /\ hm_pc = "waiting"
    /\ ip.pc # "ready"
    /\ link = "up"
    /\ hist.inbound < limit
    /\ LET status == ConvertHexToStatus(payload)
       IN  IF status # NoStatus
           THEN /\ last_status' = status
                /\ callbacks' = Append(callbacks, status)
           ELSE UNCHANGED <<last_status, callbacks>>
    /\ hist' = [hist EXCEPT !.inbound = @ + 1]
    /\ UNCHANGED <<_converter, _client, _connection_attempts, _message_id,
                   _update_status, _update_clear, subVars, calls, timers,
                   published, encVars>>

\* one message of client.messages: lines 114-118 (the task of line 194 was
\* created in the same step as this one and has run by the time a message
\* is handed over)
HmMessage(payload, limit) ==
    /\ hm_pc = "waiting"
    /\ ip.pc # "ready"
    /\ link = "up"
    /\ hist.inbound < limit
    /\ LET status == ConvertHexToStatus(payload)
       IN  IF status # NoStatus
           THEN /\ _update_status' = NoStatus
                /\ last_status' = status
                /\ callbacks' = Append(callbacks, status)
                /\ hist' = [hist EXCEPT !.inbound = @ + 1, !.pending_by = 0,
                                        !.pending_age = 0,
                                        !.reg_cmd = NoCommand, !.reg_age = 0]
           ELSE /\ UNCHANGED <<_update_status, last_status, callbacks>>
                /\ hist' = [hist EXCEPT !.inbound = @ + 1]
    /\ UNCHANGED <<_converter, _client, _connection_attempts, _message_id,
                   _update_clear, subVars, calls, timers, published, encVars>>

\* the iterator raises on the broken connection: the task ends with the
\* error, the group aborts and cancels the other task
HmError ==
    /\ hm_pc = "waiting"
    /\ link = "down"
    /\ hm_pc' = "done"
    /\ ip' = DoneTask
    /\ tg_error' = link_err
    /\ UNCHANGED <<_converter, clientVars, sub_pc, reconnect_interval, link,
                   link_err, calls, timers, published, callbacks, hist, encVars>>

\* the task of line 194 starts: _publish up to its first await (the publish
\* of the first packet); a broken connection raises there, the task ends
\* with the error, the group aborts and cancels the other task
IpStart ==
    /\ ip.pc = "ready"
    /\ _client # 0
    /\ LET frames == SessionFrames(GetCurrentStatusMessage, 0, NoStatus)
       IN  /\ _message_id' = NextMessageId(_message_id, Len(GetCurrentStatusMessage))
           /\ hist' = [hist EXCEPT !.generated = @ \o Seqs(frames)]
           /\ IF link = "up"
              THEN /\ published' = Append(published, Sent(Head(frames)))
                   /\ ip' = [pc |-> "publishing", frames |-> Tail(frames)]
                   /\ UNCHANGED <<hm_pc, tg_error>>
              ELSE /\ ip' = DoneTask
                   /\ hm_pc' = "done"
                   /\ tg_error' = link_err
                   /\ UNCHANGED published
    /\ UNCHANGED <<_converter, _client, _connection_attempts, _update_status,
                   _update_clear, last_status, sub_pc, reconnect_interval, link,
                   link_err, calls, timers, callbacks, encVars>>

IpNextAgain ==
    /\ ip.pc = "publishing"
    /\ ip' = [pc |-> "ready", frames |-> <<>>]
    /\ UNCHANGED <<_converter, clientVars, sub_pc, reconnect_interval, link,
                   link_err, hm_pc, tg_error, calls, timers, published,
                   callbacks, hist, encVars>>

\* the publish the task awaited is done: the next packet, or the task ends
IpNext ==
    /\ ip.pc = "publishing"
    /\ IF ip.frames = <<>>
       THEN /\ ip' = DoneTask
            /\ UNCHANGED <<hm_pc, tg_error, published>>
       ELSE IF link = "up"
       THEN /\ published' = Append(published, Sent(Head(ip.frames)))
            /\ ip' = [ip EXCEPT !.frames = Tail(@)]
            /\ UNCHANGED <<hm_pc, tg_error>>
       ELSE /\ ip' = DoneTask
            /\ hm_pc' = "done"
            /\ tg_error' = link_err
            /\ UNCHANGED published
    /\ UNCHANGED <<_converter, clientVars, sub_pc, reconnect_interval, link,
                   link_err, calls, timers, callbacks, hist, encVars>>

(* ------------------------------ set_* calls --------------------------- *)

\* get_light_brightness_levels, lines 218-223
GetLightBrightnessLevels ==
    IF ~_converter.supported THEN {} ELSE ConverterLevels

\* _get_publish_status, lines 132-139 (NoStatus: it raises)
GetPublishStatus ==
    IF _update_status # NoStatus THEN _update_status
    ELSE IF last_status # NoStatus THEN last_status
    ELSE NoStatus

ApplyCommandScheduleAsGiven(cmd, base) ==
    CASE cmd.op = "set_power" -> [base EXCEPT !.system_on = cmd.flag]
      [] cmd.op = "set_light_mode" -> [base EXCEPT !.light_mode = cmd.num]
      [] cmd.op = "set_light_brightness" -> [base EXCEPT !.light_brightness = cmd.num]
      [] cmd.op = "set_light_schedule" ->
            [base EXCEPT !.light_schedule_start = cmd.num,
                         !.light_schedule_end = cmd.num2]
      [] cmd.op = "set_plant_days" -> [base EXCEPT !.plant_days = cmd.num]
      [] cmd.op = "set_pump_mode" -> [base EXCEPT !.pump_mode = IF cmd.flag THEN 1 ELSE 0]
      [] cmd.op = "set_sound" -> [base EXCEPT !.system_sound = cmd.flag]

\* dataclasses.replace(...) of each set_* method, lines 225-272
ApplyCommand(cmd, base) ==
    CASE cmd.op = "set_power" -> [base EXCEPT !.system_on = cmd.flag]
      [] cmd.op = "set_light_mode" -> [base EXCEPT !.light_mode = cmd.num]
      [] cmd.op = "set_light_brightness" -> [base EXCEPT !.light_brightness = cmd.num]
      [] cmd.op = "set_light_schedule" ->
            [base EXCEPT
                !.light_schedule_start = IF cmd.num = NoTime THEN @ ELSE cmd.num,
                !.light_schedule_end = IF cmd.num2 = NoTime THEN @ ELSE cmd.num2]
      [] cmd.op = "set_plant_days" -> [base EXCEPT !.plant_days = cmd.num]
      [] cmd.op = "set_pump_mode" -> [base EXCEPT !.pump_mode = IF cmd.flag THEN 1 ELSE 0]
      [] cmd.op = "set_sound" -> [base EXCEPT !.system_sound = cmd.flag]

\* the call is over: it returned (result "ok") or raised
Finish(result) == [IdleCall EXCEPT !.result = result]

TimerIds(ts) == {t.id : t \in ts}

RaisesAtStartNoClientCheck(cmd) ==
    IF cmd.op = "set_light_brightness" /\ cmd.num \notin GetLightBrightnessLevels
    THEN "unsupported_value"
    ELSE IF GetPublishStatus = NoStatus THEN "no_status"
    ELSE "none"

RaisesAtStartStatusFirst(cmd) ==
    IF GetPublishStatus = NoStatus THEN "no_status"
    ELSE IF cmd.op = "set_light_brightness" /\ cmd.num \notin GetLightBrightnessLevels
    THEN "unsupported_value"
    ELSE IF ~_converter.supported \/ _client = 0 THEN "missing_converter_client"
    ELSE "none"

\* what a set_* call raises before it changes anything: lines 227-230 of
\* set_light_brightness, line 139 of _get_publish_status, line 150 of
\* _publish_status ("none": nothing)
RaisesAtStart(cmd) ==
    IF cmd.op = "set_light_brightness" /\ cmd.num \notin GetLightBrightnessLevels
    THEN "unsupported_value"
    ELSE IF GetPublishStatus = NoStatus THEN "no_status"
    ELSE IF ~_converter.supported \/ _client = 0 THEN "missing_converter_client"
    ELSE "none"

\* _publish_status from line 158 on, up to the first await of _publish:
\* the status becomes the pending one, a new timer task is created (live:
\* the timer tasks that are live at that moment), and _publish runs up to
\* the publish of the first packet (started: the set_* calls made so far)
RegisterAndPublish(c, call, live, started) ==
    LET message == GetUpdateStatusMessage(_converter, call.status)
        frames == SessionFrames(message, call.id, call.status)
    IN  /\ _update_status' = call.status
        /\ _update_clear' = call.id
        /\ timers' = live \cup {[id |-> call.id, left |-> ClearDelay, cancelled |-> FALSE]}
        /\ IF _client = 0
           THEN \* line 123
                /\ calls' = [calls EXCEPT ![c] = Finish("missing_client")]
                /\ hist' = [hist EXCEPT !.calls = started, !.pending_by = call.id,
                                        !.pending_age = 0,
                                        !.reg_cmd = call.cmd, !.reg_age = 0]
                /\ UNCHANGED <<_message_id, published>>
           ELSE /\ _message_id' = NextMessageId(_message_id, Len(message))
                /\ hist' = [hist EXCEPT !.calls = started, !.pending_by = call.id,
                                        !.pending_age = 0,
                                        !.reg_cmd = call.cmd, !.reg_age = 0,
                                        !.generated = @ \o Seqs(frames)]
                /\ IF link = "up"
                   THEN /\ published' = Append(published, Sent(Head(frames)))
                        /\ calls' = [calls EXCEPT ![c] =
                                [call EXCEPT !.pc = "publishing", !.wait = 0,
                                             !.frames = Tail(frames)]]
                   ELSE /\ calls' = [calls EXCEPT ![c] = Finish("mqtt_error")]
                        /\ UNCHANGED published

\* caller c calls a set_* method: the method and _publish_status up to the
\* first await, or to the raise of a LetPotException (the callers are
\* alike: a call takes the first free one)
CallStart(c, cmd, limit) ==
    /\ calls[c].pc = "idle"
    /\ \A d \in Callers : d < c => calls[d].pc # "idle"
    /\ hist.calls < limit
    /\ LET id == hist.calls + 1
           base == GetPublishStatus
           call == [pc |-> "idle", id |-> id, cmd |-> cmd, base |-> base,
                    status |-> IF base = NoStatus THEN NoStatus
                               ELSE ApplyCommand(cmd, base),
                    wait |-> 0, frames |-> <<>>, result |-> "none"]
       IN  IF RaisesAtStart(cmd) # "none"
           THEN /\ calls' = [calls EXCEPT ![c] = Finish(RaisesAtStart(cmd))]
                /\ hist' = [hist EXCEPT !.calls = id]
                /\ UNCHANGED <<_message_id, _update_status, _update_clear,
                               timers, published>>
           ELSE IF _update_clear \in TimerIds(timers)
           THEN \* lines 152-155: cancel the timer task and wait for it
                /\ timers' = {IF t.id = _update_clear
                              THEN [t EXCEPT !.cancelled = TRUE] ELSE t : t \in timers}
                /\ calls' = [calls EXCEPT ![c] =
                        [call EXCEPT !.pc = "await_clear", !.wait = _update_clear]]
                /\ hist' = [hist EXCEPT !.calls = id]
                /\ UNCHANGED <<_message_id, _update_status, _update_clear, published>>
           ELSE RegisterAndPublish(c, call, timers, id)
    /\ UNCHANGED <<_converter, _client, _connection_attempts, last_status,
                   subVars, callbacks, encVars>>

\* the timer task the call waited for is gone: line 156 on
CallResume(c) ==
    /\ calls[c].pc = "await_clear"
    /\ calls[c].wait \notin TimerIds(timers)
    /\ RegisterAndPublish(c, calls[c], timers, hist.calls)
    /\ UNCHANGED <<_converter, _client, _connection_attempts, last_status,
                   subVars, callbacks, encVars>>

\* the publish the call awaited is done: the next packet (line 130), or the
\* call returns
CallNext(c) ==
    /\ calls[c].pc = "publishing"
    /\ IF calls[c].frames = <<>>
       THEN /\ calls' = [calls EXCEPT ![c] = Finish("ok")]
            /\ UNCHANGED published
       ELSE IF PublishOutcome = "sent"
       THEN /\ published' = Append(published, Sent(Head(calls[c].frames)))
            /\ calls' = [calls EXCEPT ![c].frames = Tail(@)]
       ELSE /\ calls' = [calls EXCEPT ![c] = Finish(PublishOutcome)]
            /\ UNCHANGED published
    /\ UNCHANGED <<_converter, clientVars, subVars, timers, callbacks, hist,
                   encVars>>

(* ------------------------- the pending-status timer ------------------- *)

\* _clear_update_status after its sleep: lines 144-145
TimerFire(t) ==
    /\ t \in timers
    /\ ~t.cancelled
    /\ t.left = 0
    /\ _update_status' = NoStatus
    /\ _update_clear' = 0
    /\ timers' = timers \ {t}
    /\ hist' = [hist EXCEPT !.pending_by = 0, !.pending_age = 0]
    /\ UNCHANGED <<_converter, _client, _connection_attempts, _message_id,
                   last_status, subVars, calls, published, callbacks, encVars>>

\* a cancelled timer task runs: CancelledError out of its sleep, it ends
TimerCancelled(t) ==
    /\ t \in timers
    /\ t.cancelled
    /\ timers' = timers \ {t}
    /\ UNCHANGED <<_converter, clientVars, subVars, calls, published, callbacks,
                   hist, encVars>>

\* what the event loop runs at once, without waiting for anything
LoopBusy ==
    \/ \E t \in timers : t.cancelled \/ t.left = 0
    \/ \E c \in Callers : calls[c].pc = "await_clear"
    \/ hm_pc = "ready"
    \/ ip.pc = "ready"
    \/ sub_pc = "running" /\ tg_error # NoError

\* one second passes, while a timer sleeps and the loop has nothing to run
Tick ==
    /\ timers # {}
    /\ ~LoopBusy
    /\ timers' = {[t EXCEPT !.left = @ - 1] : t \in timers}
    /\ hist' = [hist EXCEPT
            !.pending_age = IF _update_status # NoStatus THEN @ + 1 ELSE @,
            !.reg_age = IF hist.reg_cmd # NoCommand THEN Min(@ + 1, ClearDelay)
                        ELSE @]
    /\ UNCHANGED <<_converter, clientVars, subVars, calls, published, callbacks,
                   encVars>>

(* --------------------------- encoder runs ----------------------------- *)

\* payloads whose bytes differ from place to place, so that a chunk taken
\* from the wrong offset shows
MessageOf(length, seed) == [i \in 1..length |-> (seed + 7 * i) % 256]

HeaderInputs == {<<PublishMaintype, PublishSubtype>>, <<5, 1>>}

\* an encoder run is a call of the method on an object whose counter stands
\* at any value a connection left it at
InitEncode ==
    /\ _converter \in {c \in Converters : c.supported /\ c.update_len < MaxPacketSize}
    /\ _message_id \in 0..MaxStartId
    /\ InitObject
    /\ \E length \in 0..MaxMessageLen, seed \in {0, 250}, h \in HeaderInputs :
          enc_in = [maintype |-> h[1], subtype |-> h[2],
                    message |-> MessageOf(length, seed)]
    /\ enc_pc = "ready"
    /\ enc_raw = <<>>
    /\ enc_out = <<>>

\* one call of _generate_message_packets
Encode ==
    /\ enc_pc = "ready"
    /\ enc_pc' = "done"
    /\ enc_raw' = RawPackets(enc_in.maintype, enc_in.subtype, enc_in.message, _message_id)
    /\ enc_out' = GenerateMessagePackets(enc_in.maintype, enc_in.subtype,
                                         enc_in.message, _message_id)
    /\ _message_id' = NextMessageId(_message_id, Len(enc_in.message))
    /\ UNCHANGED <<enc_in, _converter, _client, _connection_attempts,
                   _update_status, _update_clear, last_status, subVars, calls,
                   timers, published, callbacks, hist>>

NextEncode == Encode

SpecEncode == InitEncode /\ [][NextEncode]_vars

\* the first value that two hex digits do not hold
ByteRange == 256

\* an encoder run late in a long connection: the counter stands at 256 or
\* just below
InitEncodeLate ==
    /\ _converter \in {c \in Converters : c.supported /\ c.update_len < MaxPacketSize}
    /\ _message_id \in (ByteRange - MaxStartId)..ByteRange
    /\ InitObject
    /\ \E length \in 0..MaxMessageLen, seed \in {0, 250}, h \in HeaderInputs :
          enc_in = [maintype |-> h[1], subtype |-> h[2],
                    message |-> MessageOf(length, seed)]
    /\ enc_pc = "ready"
    /\ enc_raw = <<>>
    /\ enc_out = <<>>

SpecEncodeLate == InitEncodeLate /\ [][NextEncode]_vars

(* ------------------------- claims: the encoder ------------------------ *)

Bit(x, i) == (x \div (2 ^ i)) % 2

\* x is the bitwise or of a and b (on the low 12 bits, enough for the inputs)
IsBitOr(x, a, b) ==
    \A i \in 0..11 : Bit(x, i) = (IF Bit(a, i) = 1 \/ Bit(b, i) = 1 THEN 1 ELSE 0)

HexValue(c) == CHOOSE d \in 0..15 : HexChar(d) = c

\* the bytes a receiver reads from a rendered packet: two characters a byte
ParseHex(chars) ==
    [i \in 1..(Len(chars) \div 2) |->
        16 * HexValue(chars[2 * i - 1]) + HexValue(chars[2 * i])]

\* the last k characters of a rendered packet
LastChars(chars, k) == SubSeq(chars, Len(chars) - k + 1, Len(chars))

\* the chunk a built packet carries: what follows its 4 (last packet) or 6
\* (continuation packet) header bytes
ChunkOf(packet) ==
    IF packet[2] = 0 THEN SubSeq(packet, 5, Len(packet))
    ELSE SubSeq(packet, 7, Len(packet))

RECURSIVE ConcatChunks(_)
ConcatChunks(packets) ==
    IF packets = <<>> THEN <<>>
    ELSE ChunkOf(Head(packets)) \o ConcatChunks(Tail(packets))

\* C6 as stated: every payload of at most MTU-6 bytes, the empty one included,
\* gives exactly one packet, with flag 0, length byte len(p), header byte
\* (subtype << 2) | maintype, and p after the length byte.
C6_SinglePacket ==
    (enc_pc = "done" /\ Len(enc_in.message) <= MTU - 6) =>
        /\ Len(enc_out) = 1
        /\ Len(enc_raw) = 1
        /\ IsBitOr(enc_raw[1][1], enc_in.subtype * 4, enc_in.maintype)
        /\ enc_raw[1][2] = 0
        /\ enc_raw[1][4] = Len(enc_in.message)
        /\ SubSeq(enc_raw[1], 5, Len(enc_raw[1])) = enc_in.message
        /\ ParseHex(SubSeq(enc_out[1], 1, 4)) = <<enc_raw[1][1], 0>>
        /\ ParseHex(LastChars(enc_out[1], 2 * (1 + Len(enc_in.message))))
              = <<Len(enc_in.message)>> \o enc_in.message

\* C7: a payload of more than MTU-6 bytes gives ceil(len/(MTU-6)) packets;
\* all but the last carry flag 16, length byte chunk+4 and the total length
\* as (len % 256, len // 256); the last carries flag 0 and length byte chunk;
\* no chunk is longer than MTU-6; the chunks in order give back the payload.
C7_MultiPacket ==
    (enc_pc = "done" /\ Len(enc_in.message) > MTU - 6) =>
        LET length == Len(enc_in.message)
            count == Len(enc_raw)
        IN  /\ Len(enc_out) = count
            /\ (count - 1) * (MTU - 6) < length
            /\ length <= count * (MTU - 6)
            /\ \A i \in 1..count :
                  LET pk == enc_raw[i]
                  IN  /\ IsBitOr(pk[1], enc_in.subtype * 4, enc_in.maintype)
                      /\ Len(ChunkOf(pk)) <= MTU - 6
                      /\ IF i < count
                         THEN /\ pk[2] = 16
                              /\ pk[4] = Len(ChunkOf(pk)) + 4
                              /\ pk[5] = length % 256
                              /\ pk[6] = length \div 256
                              /\ Len(pk) = 6 + Len(ChunkOf(pk))
                         ELSE /\ pk[2] = 0
                              /\ pk[4] = Len(ChunkOf(pk))
                              /\ Len(pk) = 4 + Len(ChunkOf(pk))
                      /\ ParseHex(LastChars(enc_out[i], 2 * Len(ChunkOf(pk))))
                            = ChunkOf(pk)
            /\ ConcatChunks(enc_raw) = enc_in.message

\* a payload of exactly two full chunks went out as two packets
C7_Witness ==
    /\ enc_pc = "done"
    /\ Len(enc_in.message) = 2 * (MTU - 6)
    /\ Len(enc_out) = 2
    /\ enc_raw[1][2] = 16
    /\ enc_raw[2][2] = 0

(* --------------------------- the specifications ----------------------- *)

NextLife ==
    \/ SubscribeCall
    \/ ConnectOk
    \/ \E err \in TransportErrors : ConnectFail(err, MaxLifeAttempts)
    \/ BackoffDone
    \/ SubscribeTopicOk
    \/ \E err \in TransportErrors : SubscribeTopicFail(err)
    \/ \E err \in TransportErrors : LinkLost(err)
    \/ TaskGroupUnwind
    \/ CancelSubscribe
    \/ HmStart
    \/ HmError
    \/ IpStart
    \/ IpNext

\* the life cycle of subscribe alone: no set_* call, no inbound message
SpecLife == InitSession /\ [][NextLife]_vars

Next ==
    \/ SubscribeCall
    \/ ConnectOk
    \/ \E err \in SessionErrors : ConnectFail(err, MaxAttempts)
    \/ BackoffDone
    \/ SubscribeTopicOk
    \/ \E err \in SessionErrors : SubscribeTopicFail(err)
    \/ \E err \in SessionErrors : LinkLost(err)
    \/ TaskGroupUnwind
    \/ CancelSubscribe
    \/ HmStart
    \/ \E payload \in InboundPayloads : HmMessage(payload, MaxInbound)
    \/ HmError
    \/ IpStart
    \/ IpNext
    \/ \E c \in Callers, cmd \in SessionCommands : CallStart(c, cmd, MaxCalls)
    \/ \E c \in Callers : CallResume(c)
    \/ \E c \in Callers : CallNext(c)
    \/ \E t \in timers : TimerFire(t)
    \/ \E t \in timers : TimerCancelled(t)
    \/ Tick

\* the client object, from its construction on
Spec == InitSession /\ [][Next]_vars

\* the steps of a session whose transport does not fail
Steady(commands, limit, inbound) ==
    \/ SubscribeCall
    \/ ConnectOk
    \/ SubscribeTopicOk
    \/ HmStart
    \/ \E payload \in InboundPayloads : HmMessage(payload, inbound)
    \/ IpStart
    \/ IpNext
    \/ \E c \in Callers, cmd \in commands : CallStart(c, cmd, limit)
    \/ \E c \in Callers : CallResume(c)
    \/ \E c \in Callers : CallNext(c)
    \/ \E t \in timers : TimerFire(t)
    \/ \E t \in timers : TimerCancelled(t)
    \/ Tick

\* the object made for a device whose update message fits one packet
InitPending == InitSession /\ _converter = ShortConverter

NextPending == Steady(PendingCommands, MaxPendingCalls, MaxPendingInbound)

\* the pending status and its timer, under overlapping set_* calls
SpecPending == InitPending /\ [][NextPending]_vars

NextTurns == Steady(TurnCommands(hist.calls), MaxTurnCalls, MaxInbound)

\* set_* calls on different fields, one after the other or overlapping
SpecTurns == InitPending /\ [][NextTurns]_vars

NextCommands == Steady(AllCommands, MaxCommandCalls, MaxInbound)

\* every set_* method
SpecCommands == InitSession /\ [][NextCommands]_vars

(* ----------------------- claims: the life cycle ----------------------- *)

\* C1 as stated: an authentication-coded transport error, raised at connect
\* time, by the subscription to the data topic or by a task of the Running
\* session, makes subscribe raise the authentication failure, with no
\* increment of the failure counter and no backoff sleep
C1_AuthenticationStops ==
    [][/\ \A err \in TransportErrors :
            (IsAuthError(err)
                /\ (ConnectFail(err, MaxLifeAttempts) \/ SubscribeTopicFail(err)))
            => sub_pc' = "auth_failed" /\ UNCHANGED _connection_attempts
       /\ (TaskGroupUnwind /\ IsAuthError(tg_error))
            => sub_pc' = "auth_failed" /\ UNCHANGED _connection_attempts
      ]_vars

\* C2 as stated: a transport error that is not authentication-coded,
\* wherever it is raised (opening the connection, subscribing to the data
\* topic, the dispatch task, the initial publish task), is followed by the
\* backoff sleep, and subscribe neither returns nor raises
C2_TransportContained ==
    [][/\ \A err \in TransportErrors :
            (~IsAuthError(err)
                /\ (ConnectFail(err, MaxLifeAttempts) \/ SubscribeTopicFail(err)))
            => sub_pc' = "sleeping"
       /\ (TaskGroupUnwind /\ ~IsAuthError(tg_error)) => sub_pc' = "sleeping"
       /\ (_converter.supported /\ sub_pc' # sub_pc /\ sub_pc' \in EndedPcs)
            => sub_pc' \in {"auth_failed", "cancelled"}
      ]_vars

\* min(15*k, 600), written out
BackoffAfter(k) == IF 15 * k < 600 THEN 15 * k ELSE 600

\* C3: whenever subscribe sleeps in its backoff, after the k-th consecutive
\* failed (not authentication-coded) connection attempt since the last
\* successful connection, the sleep is min(15*k, 600) seconds: 15, 30, 45,
\* 60, 75 for k = 1..5, never below 15, never above 600; every successful
\* connection resets the failure counter, and the first backoff after a
\* successful connection is 15 seconds
C3_Backoff ==
    /\ [](sub_pc = "sleeping" =>
            /\ hist.failures >= 1
            /\ reconnect_interval = BackoffAfter(hist.failures)
            /\ reconnect_interval >= 15 /\ reconnect_interval <= 600
            /\ hist.failures <= 5 =>
                    reconnect_interval = <<15, 30, 45, 60, 75>>[hist.failures])
    /\ [][ConnectOk => _connection_attempts' = 0]_vars
    /\ [][(hist.failures = 0 /\ sub_pc # "sleeping" /\ sub_pc' = "sleeping")
            => reconnect_interval' = 15]_vars

\* the cap is reached, after an earlier successful connection
C3_Witness ==
    /\ sub_pc = "sleeping"
    /\ hist.connections >= 1
    /\ hist.failures = MaxLifeAttempts
    /\ reconnect_interval = 600

(* --------------------- claims: the pending status --------------------- *)

\* a set_* call registers its status in this step
Registers(c) ==
    /\ calls[c].pc \in {"idle", "await_clear"}
    /\ calls'[c].pc = "publishing" \/ calls'[c].result \in {"missing_client", "mqtt_error"}
    /\ hist'.pending_by # hist.pending_by

\* C4 as stated: a registered pending status stays the baseline until a
\* later set_* call registers, a decoded inbound status arrives, or 5 seconds
\* have passed since it was registered: the expiry clears it exactly 5
\* seconds after its registration, not earlier and not later
C4_PendingUntilExpiry ==
    /\ [](_update_status # NoStatus => hist.pending_age <= ClearDelay)
    /\ [][\A t \in timers :
            (TimerFire(t) /\ _update_status # NoStatus)
                => hist.pending_age = ClearDelay]_vars
    /\ [][(_update_status # NoStatus /\ _update_status' # _update_status)
            => \/ \E t \in timers : TimerFire(t)
               \/ \E payload \in InboundPayloads : HmMessage(payload, MaxPendingInbound)
               \/ \E c \in Callers : Registers(c)]_vars

(* -------------------- claims: the sequence numbers -------------------- *)

\* C5: the sequence numbers generated on one connection are 0, 1, 2, ... in
\* generation order, over the frames of one message and over all messages,
\* and the counter goes back only in the step that establishes a connection
C5_SequenceNumbers ==
    /\ [](/\ \A n \in 1..Len(hist.generated) : hist.generated[n] = n - 1
          /\ _message_id = Len(hist.generated))
    /\ [][_message_id' < _message_id => ConnectOk /\ _message_id' = 0]_vars

\* the second connection, with the initial request and a two-packet update
C5_Witness ==
    /\ hist.connections = 2
    /\ Len(hist.generated) >= 3
    /\ \E n \in 1..Len(published) :
            published[n].owner > 0 /\ published[n].conn = 2

(* ------------------------ claims: set_* calls ------------------------- *)

StatusFields == DOMAIN ReportA

\* the fields a method is to change
TargetFields(cmd) ==
    CASE cmd.op = "set_power" -> {"system_on"}
      [] cmd.op = "set_light_mode" -> {"light_mode"}
      [] cmd.op = "set_light_brightness" -> {"light_brightness"}
      [] cmd.op = "set_light_schedule" ->
            (IF cmd.num = NoTime THEN {} ELSE {"light_schedule_start"})
                \cup (IF cmd.num2 = NoTime THEN {} ELSE {"light_schedule_end"})
      [] cmd.op = "set_plant_days" -> {"plant_days"}
      [] cmd.op = "set_pump_mode" -> {"pump_mode"}
      [] cmd.op = "set_sound" -> {"system_sound"}

\* the value a method is to give a field it changes
TargetValue(cmd, f) ==
    CASE f \in {"system_on", "system_sound"} -> cmd.flag
      [] f = "pump_mode" -> IF cmd.flag THEN 1 ELSE 0
      [] f = "light_schedule_end" -> cmd.num2
      [] OTHER -> cmd.num

OnlyTargetsChanged(cmd, base, status) ==
    \A f \in StatusFields :
        status[f] = IF f \in TargetFields(cmd) THEN TargetValue(cmd, f) ELSE base[f]

UnsupportedLevel(cmd) ==
    cmd.op = "set_light_brightness" /\ cmd.num \notin GetLightBrightnessLevels

Last(seq) == seq[Len(seq)]

\* C8: a set_* call that passes its checks takes the baseline of that moment
\* and changes the targeted field(s) only; the status it registers as
\* pending and the frame it publishes are made from that status;
\* set_light_brightness with a level that is not offered fails with the
\* unsupported-value error and changes nothing
C8_OnlyTargetedFields ==
    [][\A c \in Callers :
        /\ \A cmd \in AllCommands :
              CallStart(c, cmd, MaxCommandCalls) =>
                  IF UnsupportedLevel(cmd)
                  THEN /\ calls'[c].result = "unsupported_value"
                       /\ UNCHANGED <<_update_status, _update_clear, timers,
                                      published>>
                  ELSE calls'[c].pc # "idle" =>
                       /\ calls'[c].base = GetPublishStatus
                       /\ OnlyTargetsChanged(cmd, GetPublishStatus, calls'[c].status)
        /\ (calls[c].pc \in {"idle", "await_clear"} /\ calls'[c].pc = "publishing")
              => /\ _update_status' = calls'[c].status
                 /\ OnlyTargetsChanged(calls'[c].cmd, calls'[c].base, _update_status')
                 /\ Len(published') = Len(published) + 1
                 /\ Last(published').owner = calls'[c].id
                 /\ Last(published').status = calls'[c].status
      ]_vars

\* set_light_schedule(None, 21) has registered and published: the start is
\* the baseline's, the end is 21
C8_Witness ==
    \E c \in Callers :
        /\ calls[c].pc = "publishing"
        /\ calls[c].cmd = Command("set_light_schedule", FALSE, NoTime, 21)
        /\ _update_status = calls[c].status
        /\ _update_status.light_schedule_start = calls[c].base.light_schedule_start
        /\ _update_status.light_schedule_end = 21
        /\ calls[c].base.light_schedule_end # 21
        /\ published # <<>> /\ Last(published).status = _update_status

SetPowerOn == Command("set_power", TRUE, 0, 0)

NoBaseline == last_status = NoStatus /\ _update_status = NoStatus

TransportActive == _client # 0 /\ link = "up"

\* the second half of C9: with a decoded status and the transport active,
\* set_power(true) passes its checks; the step in which it registers makes
\* the baseline's system_on true and publishes a frame of the update
\* command on the connection; the call returns normally
PowerOnSucceeds(c) ==
    /\ (CallStart(c, SetPowerOn, MaxCalls) /\ last_status # NoStatus /\ TransportActive)
          => calls'[c].pc \in {"await_clear", "publishing"}
    /\ (/\ calls'[c].cmd = SetPowerOn
        /\ calls[c].pc \in {"idle", "await_clear"}
        /\ calls'[c].pc = "publishing")
          => /\ GetPublishStatus'.system_on
             /\ Len(published') = Len(published) + 1
             /\ Last(published').owner = calls'[c].id
             /\ Last(published').status.system_on
             /\ Last(published').on = _client
    /\ (/\ calls[c].cmd = SetPowerOn
        /\ calls[c].pc \in {"await_clear", "publishing"}
        /\ calls'[c].pc = "idle"
        /\ TransportActive)
          => calls'[c].result = "ok"

PreconditionFailures ==
    {"unsupported_value", "no_status", "missing_converter_client", "missing_client"}

\* a set_* call of caller c ends in this step
Ends(c) ==
    /\ calls'[c].pc = "idle"
    /\ \/ calls[c].pc # "idle"
       \/ \E cmd \in SessionCommands : CallStart(c, cmd, MaxCalls)

\* C10 as stated: a set_* call that ends with a precondition failure leaves
\* the session state as it was
C10_FailureLeavesState ==
    [][\A c \in Callers :
        (Ends(c) /\ calls'[c].result \in PreconditionFailures)
            => UNCHANGED <<_client, _message_id, _connection_attempts,
                           last_status, _update_status, _update_clear, timers,
                           published, sub_pc>>
      ]_vars


(* ------------------- claims: the unsupported device ------------------- *)

\* C11 as stated: on a client whose serial matches no converter, subscribe
\* and every set_* call end with a precondition failure; none of them
\* completes normally
C11_UnsupportedFails ==
    /\ [](~_converter.supported => sub_pc # "returned")
    /\ [][\A c \in Callers :
            (~_converter.supported /\ Ends(c))
                => calls'[c].result \in PreconditionFailures]_vars

(* ---------------------- claims: the transport handle ------------------ *)

\* subscribe is not called, opens a connection, sleeps in its backoff, or
\* has ended
NotRunning == sub_pc \in EndedPcs \cup {"connecting", "sleeping"}

LiveTimers == {t \in timers : ~t.cancelled}

\* C13 as stated: at most one expiry timer task is live, the one that
\* _update_clear names, and no timer of an earlier pending status fires
\* after a newer one was registered
C13_OneLiveTimer ==
    /\ [](Cardinality(LiveTimers) <= 1)
    /\ [](\A t \in LiveTimers : t.id = _update_clear)
    /\ [][\A t \in timers :
            (TimerFire(t) /\ hist.pending_by # 0) => t.id = hist.pending_by]_vars


(* ---------------------- claims: inbound payloads ---------------------- *)

\* C14: an inbound payload that decodes to a status s clears the pending
\* status, makes s the last status and calls the callback once with s, in
\* that one step; a payload that does not decode changes neither
\* last_status nor the pending status nor its timer, and calls no callback;
\* the callbacks are called in the order of the payloads
C14_InboundDispatch ==
    [][\A payload \in InboundPayloads :
        HmMessage(payload, MaxPendingInbound) =>
            IF ConvertHexToStatus(payload) # NoStatus
            THEN /\ _update_status' = NoStatus
                 /\ last_status' = ConvertHexToStatus(payload)
                 /\ callbacks' = Append(callbacks, last_status')
                 /\ GetPublishStatus' = ConvertHexToStatus(payload)
            ELSE UNCHANGED <<last_status, _update_status, _update_clear,
                             timers, callbacks>>
      ]_vars

\* a second, different report arrived while a status was pending
C14_Witness ==
    /\ Len(callbacks) = 2
    /\ callbacks[1] # callbacks[2]
    /\ last_status = callbacks[2]
    /\ _update_status = NoStatus
    /\ LiveTimers # {}


(* ------------------- claims: calls one after the other ---------------- *)

\* no set_* call is running, and none has failed
AllReturned ==
    \A d \in Callers : calls[d].pc = "idle" /\ calls[d].result \in {"none", "ok"}

\* C15 as stated: a set_* call that starts after the call before it has
\* returned, less than 5 seconds after that call was made, on another
\* field, with the transport active and no status decoded in between, builds
\* the status it publishes from a baseline that has the field value of the
\* call before it
C15_SecondKeepsFirst ==
    [][\A c \in Callers, cmd \in AllCommands :
        (/\ CallStart(c, cmd, MaxTurnCalls)
         /\ AllReturned
         /\ TransportActive
         /\ hist.reg_cmd # NoCommand
         /\ hist.reg_cmd.op # cmd.op
         /\ hist.reg_age < ClearDelay)
            => /\ calls'[c].pc \in {"await_clear", "publishing"}
               /\ \A f \in TargetFields(hist.reg_cmd) :
                      calls'[c].status[f] = TargetValue(hist.reg_cmd, f)
               /\ \A f \in TargetFields(cmd) :
                      calls'[c].status[f] = TargetValue(cmd, f)
      ]_vars


(* ------------------ claims: the pending status and publish ------------ *)

\* the number of the set_* call of caller c that ends in this step
EndingId(c) == IF calls[c].pc = "idle" THEN hist'.calls ELSE calls[c].id

\* C16 as stated: the pending status is the status of a set_* call only
\* when all frames of that call have been published, and a set_* call
\* whose publish raises a transport error leaves no pending status of its
\* own behind
C16_PendingOnlyPublished ==
    /\ [](\A c \in Callers :
            (calls[c].pc = "publishing" /\ hist.pending_by = calls[c].id)
                => calls[c].frames = <<>>)
    /\ [][\A c \in Callers :
            (Ends(c) /\ calls'[c].result = "mqtt_error")
                => hist'.pending_by # EndingId(c)]_vars

(* ------------------- claims: the order of the frames ------------------ *)

\* C17 as stated: the frames generated on one connection are published in
\* the order of their sequence numbers, and the frames of one message are
\* not interleaved with those of another
C17_PublishedInOrder ==
    \A i, j \in 1..Len(published) :
        (i < j /\ published[i].conn = published[j].conn)
            => /\ published[i].seq < published[j].seq
               /\ (published[i].owner = published[j].owner
                      => \A k \in i..j : published[k].owner = published[i].owner)

\* C20 as stated: every frame is published on the connection on which its
\* sequence number was assigned, and a call whose publish is suspended
\* between two frames when the connection goes away fails with the
\* missing-transport LetPotException
C20_FramesOnOwnConnection ==
    /\ [](\A i \in 1..Len(published) : published[i].on = published[i].conn)
    /\ [][\A c \in Callers :
            (/\ calls[c].pc = "publishing"
             /\ calls[c].frames # <<>>
             /\ _client = 0
             /\ CallNext(c))
                => calls'[c].result = "missing_client"]_vars


(* -------------------- claims: the initial request --------------------- *)

\* the status requests published with sequence numbers of connection k
Requests(k) ==
    Cardinality({n \in 1..Len(published) :
                    published[n].owner = 0 /\ published[n].conn = k})

\* the connections that are over
PastConnections == {k \in 1..hist.connections : k # _client}

\* the tasks exist only once the subscription is done, and no status
\* request goes out before
TasksAfterSubscription ==
    /\ (hm_pc # "none" \/ ip.pc # "none") => sub_pc = "running"
    /\ sub_pc = "subscribing" => Requests(_client) = 0
    /\ \A n \in 1..Len(published) : published[n].conn \in 1..hist.connections

\* C18 as stated: the subscription to the data topic is completed before
\* the dispatch loop starts and the status request is published; every
\* established connection gets exactly one status request, a failed
\* attempt none
C18_OneRequestEach ==
    /\ [](TasksAfterSubscription)
    /\ [](\A k \in 1..hist.connections : Requests(k) <= 1)
    /\ [](\A k \in PastConnections : Requests(k) = 1)

\* C18, amended: the subscription to the data topic is completed before
\* the dispatch loop starts and the status request is published; every
\* established connection gets at most one status request, and exactly one
\* once its publish task has run to its end; a failed attempt gets none
C18_AtMostOneRequest ==
    /\ [](TasksAfterSubscription)
    /\ [](\A k \in 1..hist.connections : Requests(k) <= 1)
    /\ []((ip.pc = "done" /\ tg_error = NoError /\ link = "up")
            => Requests(_client) = 1)

\* the second connection, each with its status request out
C18_Witness ==
    /\ hist.connections = 2
    /\ Requests(1) = 1 /\ Requests(2) = 1
    /\ ip.pc = "done" /\ tg_error = NoError
    /\ hm_pc = "waiting"

(* --------------------- claims: the rendered frames -------------------- *)

\* C19 as stated: every byte of every emitted frame is in 0..255 and is
\* rendered as two hex digits: a last frame is 2*(4 + chunk) characters, a
\* continuation frame 2*(6 + chunk), whatever the counter stands at
C19_FramesWellFormed ==
    enc_pc = "done" =>
        \A i \in 1..Len(enc_raw) :
            /\ \A b \in 1..Len(enc_raw[i]) : enc_raw[i][b] \in 0..255
            /\ Len(enc_out[i]) =
                    2 * ((IF enc_raw[i][2] = 0 THEN 4 ELSE 6) + Len(ChunkOf(enc_raw[i])))
            /\ ParseHex(enc_out[i]) = enc_raw[i]


=============================================================================
